---- MODULE Spec2Model ----
(***************************************************************************)
(* Model of scripts/01_vpc_tutorial.py: main() provisions a VPC, an        *)
(* Internet Gateway, three subnets and two route tables through the EC2    *)
(* API, and cleanup_vpc() tears the network down again.  Every EC2 API     *)
(* call of the script is one step; the EC2 service is the record aws.      *)
(***************************************************************************)
EXTENDS Integers, Sequences, FiniteSets, TLC

VARIABLES aws, pc, ip, run, vpc_id, todo, cur, rtSnap, lastCall,
          createOrder, deleteOrder, caller, cleanups, oob, faults,
          subnetCalls

vars == <<aws, pc, ip, run, vpc_id, todo, cur, rtSnap, lastCall,
          createOrder, deleteOrder, caller, cleanups, oob, faults,
          subnetCalls>>

\* ------------------------------------------------------------------ bounds
\* number of times the script is started: main(), or cleanup_vpc() called by
\* hand on a VPC that an earlier run left behind
MaxInvocations == 2
\* number of times the world interferes with the script: a call the service
\* fails for a reason of its own, or a resource somebody else removes
MaxDisturbances == 1

\* ------------------------------------------------------- resources and ids
None == <<0, "none">>

\* the local variables of main() that hold a subnet or a route table;
\* main_rt is the main route table EC2 creates with every VPC
SubnetSlots == {"public_subnet_1", "public_subnet_2", "private_subnet_1"}
RtSlots == {"public_rt", "private_rt", "main_rt"}

\* an address block a.b.c.d/len: its first address as a number, and its length
Cidr(a, b, c, d, len) == [addr |-> ((a * 256 + b) * 256 + c) * 256 + d,
                          len |-> len]
First(c) == c.addr
Last(c) == c.addr + 2 ^ (32 - c.len) - 1
Overlap(c1, c2) == First(c1) <= Last(c2) /\ First(c2) <= Last(c1)
Within(c, v) == First(v) <= First(c) /\ Last(c) <= Last(v)

\* CidrBlock='10.0.0.0/16' of create_vpc
VpcCidr == Cidr(10, 0, 0, 0, 16)

\* the blocks create_subnet is called with by hand, on a VPC main() built:
\* inside an existing subnet, free, and outside the VPC
HandCidrs == {"10.0.1.0/25", "10.0.3.0/24", "10.1.0.0/24"}

\* the cidr argument of create_subnet: the three calls of main(), and the
\* calls by hand, whose subnet is named by its block
CidrOf(slot) ==
    CASE slot = "public_subnet_1" -> Cidr(10, 0, 1, 0, 24)
      [] slot = "public_subnet_2" -> Cidr(10, 0, 2, 0, 24)
      [] slot = "private_subnet_1" -> Cidr(10, 0, 10, 0, 24)
      [] slot = "10.0.1.0/25" -> Cidr(10, 0, 1, 0, 25)
      [] slot = "10.0.3.0/24" -> Cidr(10, 0, 3, 0, 24)
      [] slot = "10.1.0.0/24" -> Cidr(10, 1, 0, 0, 24)
      [] slot = "other_subnet" -> Cidr(10, 0, 20, 0, 24)

\* the id EC2 assigns to the resource a run of main() creates
Id(r, slot) == <<r, slot>>

KindOf(id) ==
    CASE id[2] = "vpc" -> "VPC"
      [] id[2] = "igw" -> "InternetGateway"
      [] id[2] \in SubnetSlots \cup HandCidrs \cup {"other_subnet"} -> "Subnet"
      [] id[2] \in RtSlots -> "RouteTable"
      [] OTHER -> "none"

VpcOf(id) == <<id[1], "vpc">>

\* ------------------------------------------------------- the EC2 service
\* live: resources that exist; issued: ids EC2 ever handed out;
\* tags: <<id, Name tag>>; attached: <<igw, vpc>>;
\* assoc: route table associations; routes: <<route table, gateway>>;
\* attrs: resources whose attribute was modified (DNS hostnames, public IP);
\* pending: resources whose state is still "pending", not yet "available"
EmptyAws == [live |-> {}, issued |-> {}, tags |-> {}, attached |-> {},
             assoc |-> {}, routes |-> {}, attrs |-> {}, pending |-> {}]

Subnets(P, v) == {s \in P.live : KindOf(s) = "Subnet" /\ VpcOf(s) = v}
RouteTables(P, v) == {t \in P.live : KindOf(t) = "RouteTable" /\ VpcOf(t) = v}
InternetGateways(P, v) == {g \in P.live : <<g, v>> \in P.attached}
AssocsOf(P, t) == {a \in P.assoc : a.rt = t}
IsMain(P, t) == \E a \in AssocsOf(P, t) : a.main

\* the error code EC2 answers a call with when it cannot be carried out,
\* "ok" when it can
Refusal(P, op, id, arg) ==
    CASE op \in {"create_vpc", "create_internet_gateway"} -> "ok"
      [] op = "create_route_table" ->
            IF arg \in P.live THEN "ok" ELSE "NotFound"
      [] op = "create_subnet" ->
            IF arg \notin P.live THEN "NotFound"
            ELSE IF ~Within(CidrOf(id[2]), VpcCidr) THEN "InvalidSubnet.Range"
            ELSE IF \E s \in Subnets(P, arg) :
                       Overlap(CidrOf(s[2]), CidrOf(id[2]))
                 THEN "InvalidSubnet.Conflict" ELSE "ok"
      [] op \in {"create_tags", "wait_until_available", "modify_vpc_attribute",
                 "modify_subnet_attribute", "describe_vpcs"} ->
            IF id \in P.live THEN "ok" ELSE "NotFound"
      [] op \in {"describe_subnets", "describe_route_tables",
                 "describe_internet_gateways"} -> "ok"
      [] op = "attach_internet_gateway" ->
            IF ~(id \in P.live /\ arg \in P.live) THEN "NotFound"
            ELSE IF \E x \in P.attached : x[1] = id \/ x[2] = arg
                 THEN "AlreadyAttached" ELSE "ok"
      [] op = "create_route" ->
            IF ~(id \in P.live /\ arg \in P.live) THEN "NotFound"
            ELSE IF <<arg, VpcOf(id)>> \notin P.attached
                 THEN "InvalidParameter" ELSE "ok"
      [] op = "associate_with_subnet" ->
            IF ~(id \in P.live /\ arg \in P.live) THEN "NotFound"
            ELSE IF \E a \in P.assoc : a.subnet = arg
                 THEN "AlreadyAssociated" ELSE "ok"
      [] op = "delete_subnet" ->
            IF id \in P.live THEN "ok" ELSE "NotFound"
      [] op = "detach_internet_gateway" ->
            IF ~(id \in P.live /\ arg \in P.live) THEN "NotFound"
            ELSE IF <<id, arg>> \notin P.attached
                 THEN "NotAttached" ELSE "ok"
      [] op = "delete_internet_gateway" ->
            IF id \notin P.live THEN "NotFound"
            ELSE IF \E x \in P.attached : x[1] = id
                 THEN "DependencyViolation" ELSE "ok"
      [] op = "delete_route_table" ->
            IF id \notin P.live THEN "NotFound"
            ELSE IF AssocsOf(P, id) # {}
                 THEN "DependencyViolation" ELSE "ok"
      [] op = "delete_vpc" ->
            IF id \notin P.live THEN "NotFound"
            ELSE IF \/ Subnets(P, id) # {}
                    \/ InternetGateways(P, id) # {}
                    \/ \E t \in RouteTables(P, id) : ~IsMain(P, t)
                 THEN "DependencyViolation" ELSE "ok"
      [] OTHER -> "InvalidAction"

\* what is gone from the service once the resources in gone are deleted
Remove(P, gone) ==
    [P EXCEPT !.live = @ \ gone,
              !.tags = {x \in @ : x[1] \notin gone},
              !.attrs = @ \ gone,
              !.pending = @ \ gone,
              !.assoc = {a \in @ : a.rt \notin gone /\ a.subnet \notin gone},
              !.routes = {x \in @ : x[1] \notin gone}]

\* the service after a call that succeeded
Effect(P, op, id, arg, name) ==
    CASE op = "create_vpc" ->
            [P EXCEPT !.live = @ \cup {id, <<id[1], "main_rt">>},
                      !.issued = @ \cup {id, <<id[1], "main_rt">>},
                      !.pending = @ \cup {id},
                      !.assoc = @ \cup {[rt |-> <<id[1], "main_rt">>,
                                         subnet |-> None, main |-> TRUE]}]
      [] op \in {"create_internet_gateway", "create_route_table"} ->
            [P EXCEPT !.live = @ \cup {id}, !.issued = @ \cup {id}]
      [] op = "create_subnet" ->
            [P EXCEPT !.live = @ \cup {id}, !.issued = @ \cup {id},
                      !.pending = @ \cup {id}]
      [] op = "wait_until_available" ->
            [P EXCEPT !.pending = @ \ {id}]
      [] op = "create_tags" ->
            [P EXCEPT !.tags = @ \cup {<<id, name>>}]
      [] op \in {"modify_vpc_attribute", "modify_subnet_attribute"} ->
            [P EXCEPT !.attrs = @ \cup {id}]
      [] op = "attach_internet_gateway" ->
            [P EXCEPT !.attached = @ \cup {<<id, arg>>}]
      [] op = "create_route" ->
            [P EXCEPT !.routes = @ \cup {<<id, arg>>}]
      [] op = "associate_with_subnet" ->
            [P EXCEPT !.assoc = @ \cup {[rt |-> id, subnet |-> arg,
                                         main |-> FALSE]}]
      [] op = "delete_subnet" -> Remove(P, {id})
      [] op = "detach_internet_gateway" ->
            [P EXCEPT !.attached = @ \ {<<id, arg>>}]
      [] op = "delete_internet_gateway" -> Remove(P, {id})
      [] op = "delete_route_table" -> Remove(P, {id})
      [] op = "delete_vpc" -> Remove(P, {id} \cup RouteTables(P, id))
      [] OTHER -> P

\* the answers EC2 can give to a call: the refusal when there is one, else
\* success or a failure of the service itself (throttling, outage, a
\* dependency the service still sees)
Answers(P, op, id, arg) ==
    IF Refusal(P, op, id, arg) = "ok"
    THEN {"ok"} \cup (IF faults + oob < MaxDisturbances THEN {"ServiceError"} ELSE {})
    ELSE {Refusal(P, op, id, arg)}

\* --------------------------------------------------- the script's calls
\* one EC2 API call of the script: the operation, the local variable holding
\* the resource it acts on, a second resource, and a Name tag
Ins(op, tgt, arg, name) == [op |-> op, tgt |-> tgt, arg |-> arg, name |-> name]

create_vpc ==
    << Ins("create_vpc", "vpc", "", ""),
       Ins("create_tags", "vpc", "", "tutorial-vpc"),
       Ins("wait_until_available", "vpc", "", ""),
       Ins("modify_vpc_attribute", "vpc", "", "") >>

create_internet_gateway ==
    << Ins("create_internet_gateway", "igw", "", ""),
       Ins("create_tags", "igw", "", "tutorial-igw"),
       Ins("attach_internet_gateway", "igw", "vpc", "") >>

create_subnet(subnet, name, is_public) ==
    << Ins("create_subnet", subnet, "vpc", ""),
       Ins("create_tags", subnet, "", name) >>
    \o (IF is_public THEN << Ins("modify_subnet_attribute", subnet, "", "") >>
        ELSE << >>)

create_route_table(rt, name, igw, subnet) ==
    << Ins("create_route_table", rt, "vpc", ""),
       Ins("create_tags", rt, "", name) >>
    \o (IF igw # "" THEN << Ins("create_route", rt, igw, "") >> ELSE << >>)
    \o (IF subnet # "" THEN << Ins("associate_with_subnet", rt, subnet, "") >>
        ELSE << >>)

list_vpc_resources ==
    << Ins("describe_vpcs", "vpc", "", ""),
       Ins("describe_subnets", "vpc", "", ""),
       Ins("describe_route_tables", "vpc", "", ""),
       Ins("describe_internet_gateways", "vpc", "", "") >>

\* main() with step 2 before step 1: the gateway is created and attached
\* before the VPC exists
main_GatewayFirst ==
    create_internet_gateway
    \o create_vpc
    \o create_subnet("public_subnet_1", "tutorial-public-subnet-1", TRUE)
    \o create_subnet("public_subnet_2", "tutorial-public-subnet-2", TRUE)
    \o create_subnet("private_subnet_1", "tutorial-private-subnet-1", FALSE)
    \o create_route_table("public_rt", "tutorial-public-rt", "igw",
                          "public_subnet_1")
    \o << Ins("associate_with_subnet", "public_rt", "public_subnet_2", "") >>
    \o create_route_table("private_rt", "tutorial-private-rt", "",
                          "private_subnet_1")
    \o list_vpc_resources

\* the calls of main() up to the prompt, in program order
main ==
    create_vpc
    \o create_internet_gateway
    \o create_subnet("public_subnet_1", "tutorial-public-subnet-1", TRUE)
    \o create_subnet("public_subnet_2", "tutorial-public-subnet-2", TRUE)
    \o create_subnet("private_subnet_1", "tutorial-private-subnet-1", FALSE)
    \o create_route_table("public_rt", "tutorial-public-rt", "igw",
                          "public_subnet_1")
    \o << Ins("associate_with_subnet", "public_rt", "public_subnet_2", "") >>
    \o create_route_table("private_rt", "tutorial-private-rt", "",
                          "private_subnet_1")
    \o list_vpc_resources

\* the kind of resource a successful call creates or deletes
CreateKind(op) ==
    CASE op = "create_vpc" -> "VPC"
      [] op = "create_internet_gateway" -> "InternetGateway"
      [] op = "create_subnet" -> "Subnet"
      [] op = "create_route_table" -> "RouteTable"
      [] op = "create_route" -> "Route"
      [] op = "associate_with_subnet" -> "RouteTableAssociation"
      [] OTHER -> "none"

DeleteKind(op) ==
    CASE op = "delete_vpc" -> "VPC"
      [] op = "delete_internet_gateway" -> "InternetGateway"
      [] op = "delete_subnet" -> "Subnet"
      [] op = "delete_route_table" -> "RouteTable"
      [] op = "disassociate" -> "RouteTableAssociation"
      [] OTHER -> "none"

\* q with kind k appended on its first occurrence
Noted(q, k) ==
    IF k = "none" \/ \E i \in 1..Len(q) : q[i] = k THEN q ELSE Append(q, k)

NoCall == [op |-> "none", id |-> None, arg |-> None, res |-> "ok"]
Call(op, id, arg, res) == [op |-> op, id |-> id, arg |-> arg, res |-> res]

\* the script has made the call and got the answer res
Answered(op, id, arg, res) ==
    /\ lastCall' = Call(op, id, arg, res)
    /\ faults' = IF res = "ServiceError" THEN faults + 1 ELSE faults

\* ---------------------------------------------------------------- state
Init ==
    /\ aws = EmptyAws
    /\ pc = "idle"
    /\ ip = 0
    /\ run = 0
    /\ vpc_id = None
    /\ todo = {}
    /\ cur = None
    /\ rtSnap = {}
    /\ lastCall = NoCall
    /\ createOrder = << >>
    /\ deleteOrder = << >>
    /\ caller = "none"
    /\ cleanups = 0
    /\ subnetCalls = 0
    /\ oob = 0
    /\ faults = 0

Stopped == pc \in {"idle", "done", "failed"}

\* a person acts (starts the script, answers its prompt) on a time scale on
\* which EC2 has finished the creations it had under way
Settled == aws.pending = {}

\* python 01_vpc_tutorial.py
MainStart ==
    /\ Stopped
    /\ Settled
    /\ run + cleanups + subnetCalls < MaxInvocations
    /\ run' = run + 1
    /\ pc' = "main"
    /\ ip' = 1
    /\ vpc_id' = None
    /\ todo' = {}
    /\ cur' = None
    /\ rtSnap' = {}
    /\ lastCall' = NoCall
    /\ createOrder' = << >>
    /\ deleteOrder' = << >>
    /\ caller' = "main"
    /\ UNCHANGED <<aws, cleanups, oob, faults, subnetCalls>>

\* main() with a rollback in its except clause: what the run created is
\* deleted before the error is re-raised
MainCall_RollsBack ==
    /\ pc = "main"
    /\ LET ins == main[ip]
           id == Id(run, ins.tgt)
           arg == IF ins.arg = "" THEN None ELSE Id(run, ins.arg)
       IN \E res \in Answers(aws, ins.op, id, arg) :
            /\ Answered(ins.op, id, arg, res)
            /\ IF res = "ok"
               THEN /\ aws' = Effect(aws, ins.op, id, arg, ins.name)
                    /\ ip' = ip + 1
                    /\ pc' = IF ip = Len(main) THEN "prompt" ELSE "main"
                    /\ vpc_id' = IF ip >= Len(create_vpc)
                                 THEN Id(run, "vpc") ELSE vpc_id
                    /\ createOrder' = Noted(createOrder, CreateKind(ins.op))
               ELSE /\ pc' = "failed"
                    /\ aws' = [Remove(aws, {x \in aws.live : x[1] = run})
                                 EXCEPT !.attached =
                                    {x \in @ : x[2] # Id(run, "vpc")}]
                    /\ UNCHANGED <<ip, vpc_id, createOrder>>
    /\ UNCHANGED <<run, todo, cur, rtSnap, deleteOrder, caller, cleanups, oob,
                 subnetCalls>>

\* the next call of main(): on success main goes on, on an error the
\* function prints and re-raises, and main prints and re-raises
MainCall ==
    /\ pc = "main"
    /\ LET ins == main[ip]
           id == Id(run, ins.tgt)
           arg == IF ins.arg = "" THEN None ELSE Id(run, ins.arg)
       IN \E res \in Answers(aws, ins.op, id, arg) :
            /\ Answered(ins.op, id, arg, res)
            /\ IF res = "ok"
               THEN /\ aws' = Effect(aws, ins.op, id, arg, ins.name)
                    /\ ip' = ip + 1
                    /\ pc' = IF ip = Len(main) THEN "prompt" ELSE "main"
                    /\ vpc_id' = IF ip >= Len(create_vpc)
                                 THEN Id(run, "vpc") ELSE vpc_id
                    /\ createOrder' = Noted(createOrder, CreateKind(ins.op))
               ELSE /\ pc' = "failed"
                    /\ UNCHANGED <<aws, ip, vpc_id, createOrder>>
    /\ UNCHANGED <<run, todo, cur, rtSnap, deleteOrder, caller, cleanups, oob,
                 subnetCalls>>

\* input("Do you want to clean up these resources? (yes/no): ")
Prompt ==
    /\ pc = "prompt"
    /\ Settled
    /\ \E response \in {"yes", "no"} :
         pc' = IF response = "yes" THEN "subnets.all" ELSE "done"
    /\ UNCHANGED <<aws, ip, run, vpc_id, todo, cur, rtSnap, lastCall,
                   createOrder, deleteOrder, caller, cleanups, oob,
                   faults, subnetCalls>>

\* cleanup_vpc('vpc-...') called by hand on a VPC an earlier run created
CleanupStart ==
    /\ Stopped
    /\ Settled
    /\ run + cleanups + subnetCalls < MaxInvocations
    /\ \E r \in 1..run :
         /\ Id(r, "vpc") \in aws.issued
         /\ vpc_id' = Id(r, "vpc")
    /\ cleanups' = cleanups + 1
    /\ pc' = "subnets.all"
    /\ ip' = 0
    /\ todo' = {}
    /\ cur' = None
    /\ rtSnap' = {}
    /\ lastCall' = NoCall
    /\ createOrder' = << >>
    /\ deleteOrder' = << >>
    /\ caller' = "cleanup_vpc"
    /\ UNCHANGED <<aws, run, oob, faults, subnetCalls>>

\* create_subnet(vpc, cidr, az, name) called by hand on a VPC an earlier
\* run created
CreateSubnetStart ==
    /\ Stopped
    /\ Settled
    /\ run + cleanups + subnetCalls < MaxInvocations
    /\ \E r \in 1..run, cidr \in HandCidrs :
         /\ Id(r, "vpc") \in aws.issued
         /\ Id(r, cidr) \notin aws.issued
         /\ vpc_id' = Id(r, "vpc")
         /\ cur' = Id(r, cidr)
    /\ subnetCalls' = subnetCalls + 1
    /\ pc' = "create_subnet"
    /\ ip' = 1
    /\ todo' = {}
    /\ rtSnap' = {}
    /\ lastCall' = NoCall
    /\ createOrder' = << >>
    /\ deleteOrder' = << >>
    /\ caller' = "create_subnet"
    /\ UNCHANGED <<aws, run, cleanups, oob, faults>>

\* the next call of that create_subnet; is_public keeps its default
CreateSubnetCall ==
    /\ pc = "create_subnet"
    /\ LET body == create_subnet(cur[2], cur[2], FALSE)
           ins == body[ip]
           arg == IF ins.arg = "" THEN None ELSE vpc_id
       IN \E res \in Answers(aws, ins.op, cur, arg) :
            /\ Answered(ins.op, cur, arg, res)
            /\ IF res = "ok"
               THEN /\ aws' = Effect(aws, ins.op, cur, arg, ins.name)
                    /\ ip' = ip + 1
                    /\ pc' = IF ip = Len(body) THEN "done"
                             ELSE "create_subnet"
               ELSE /\ pc' = "failed"
                    /\ UNCHANGED <<aws, ip>>
    /\ UNCHANGED <<run, vpc_id, todo, cur, rtSnap, createOrder, deleteOrder,
                   caller, cleanups, oob, subnetCalls>>

\* ------------------------------------------------------------ cleanup_vpc
\* what every step of cleanup_vpc leaves alone
CleanupFrame ==
    UNCHANGED <<ip, run, vpc_id, createOrder, caller, cleanups, oob,
                subnetCalls>>

\* the except clause of cleanup_vpc: print and re-raise (main then prints
\* and re-raises as well)
Raise ==
    /\ pc' = "failed"
    /\ UNCHANGED <<aws, todo, cur, rtSnap, deleteOrder>>

\* for subnet in vpc.subnets.all(): the listing
ListSubnets ==
    /\ pc = "subnets.all"
    /\ \E res \in Answers(aws, "describe_subnets", vpc_id, None) :
         /\ Answered("describe_subnets", vpc_id, None, res)
         /\ IF res = "ok"
            THEN /\ todo' = Subnets(aws, vpc_id)
                 /\ pc' = IF todo' = {} THEN "internet_gateways.all"
                          ELSE "subnet.delete"
                 /\ UNCHANGED <<aws, cur, rtSnap, deleteOrder>>
            ELSE Raise
    /\ CleanupFrame

\* subnet.delete()
DeleteSubnet(subnet) ==
    /\ pc = "subnet.delete"
    /\ subnet \in todo
    /\ \E res \in Answers(aws, "delete_subnet", subnet, None) :
         /\ Answered("delete_subnet", subnet, None, res)
         /\ IF res = "ok"
            THEN /\ aws' = Effect(aws, "delete_subnet", subnet, None, "")
                 /\ todo' = todo \ {subnet}
                 /\ pc' = IF todo' = {} THEN "internet_gateways.all"
                          ELSE "subnet.delete"
                 /\ deleteOrder' = Noted(deleteOrder, "Subnet")
                 /\ UNCHANGED <<cur, rtSnap>>
            ELSE Raise
    /\ CleanupFrame

\* for igw in vpc.internet_gateways.all(): the listing
ListInternetGateways ==
    /\ pc = "internet_gateways.all"
    /\ \E res \in Answers(aws, "describe_internet_gateways", vpc_id, None) :
         /\ Answered("describe_internet_gateways", vpc_id, None, res)
         /\ IF res = "ok"
            THEN /\ todo' = InternetGateways(aws, vpc_id)
                 /\ pc' = IF todo' = {} THEN "route_tables.all"
                          ELSE "detach_internet_gateway"
                 /\ UNCHANGED <<aws, cur, rtSnap, deleteOrder>>
            ELSE Raise
    /\ CleanupFrame

\* the detach with its error swallowed: the loop goes on to igw.delete()
DetachInternetGateway_ErrorSwallowed(igw) ==
    /\ pc = "detach_internet_gateway"
    /\ igw \in todo
    /\ \E res \in Answers(aws, "detach_internet_gateway", igw, vpc_id) :
         /\ Answered("detach_internet_gateway", igw, vpc_id, res)
         /\ aws' = IF res = "ok"
                   THEN Effect(aws, "detach_internet_gateway", igw, vpc_id, "")
                   ELSE aws
         /\ cur' = igw
         /\ pc' = "igw.delete"
         /\ UNCHANGED <<todo, rtSnap, deleteOrder>>
    /\ CleanupFrame

\* vpc.detach_internet_gateway(InternetGatewayId=igw.id)
DetachInternetGateway(igw) ==
    /\ pc = "detach_internet_gateway"
    /\ igw \in todo
    /\ \E res \in Answers(aws, "detach_internet_gateway", igw, vpc_id) :
         /\ Answered("detach_internet_gateway", igw, vpc_id, res)
         /\ IF res = "ok"
            THEN /\ aws' = Effect(aws, "detach_internet_gateway", igw,
                                  vpc_id, "")
                 /\ cur' = igw
                 /\ pc' = "igw.delete"
                 /\ UNCHANGED <<todo, rtSnap, deleteOrder>>
            ELSE Raise
    /\ CleanupFrame

\* igw.delete()
DeleteInternetGateway ==
    /\ pc = "igw.delete"
    /\ \E res \in Answers(aws, "delete_internet_gateway", cur, None) :
         /\ Answered("delete_internet_gateway", cur, None, res)
         /\ IF res = "ok"
            THEN /\ aws' = Effect(aws, "delete_internet_gateway", cur,
                                  None, "")
                 /\ todo' = todo \ {cur}
                 /\ cur' = None
                 /\ pc' = IF todo' = {} THEN "route_tables.all"
                          ELSE "detach_internet_gateway"
                 /\ deleteOrder' = Noted(deleteOrder, "InternetGateway")
                 /\ UNCHANGED rtSnap
            ELSE Raise
    /\ CleanupFrame

\* for rt in vpc.route_tables.all(): the listing, which also loads every
\* table's associations_attribute
ListRouteTables ==
    /\ pc = "route_tables.all"
    /\ \E res \in Answers(aws, "describe_route_tables", vpc_id, None) :
         /\ Answered("describe_route_tables", vpc_id, None, res)
         /\ IF res = "ok"
            THEN /\ todo' = RouteTables(aws, vpc_id)
                 /\ rtSnap' = {a \in aws.assoc : a.rt \in todo'}
                 /\ pc' = IF todo' = {} THEN "vpc.delete" ELSE "rt.delete"
                 /\ UNCHANGED <<aws, cur, deleteOrder>>
            ELSE Raise
    /\ CleanupFrame

\* the test left out: every table is deleted, the main one too
NotMain_Always(rt) == TRUE

\* the test with "and" for "or": a table without associations is passed over
NotMain_And(rt) ==
    /\ \E a \in rtSnap : a.rt = rt
    /\ ~ \E a \in rtSnap : a.rt = rt /\ a.main

\* not rt.associations_attribute or
\* not any(a.get('Main') for a in rt.associations_attribute)
NotMain(rt) == ~ \E a \in rtSnap : a.rt = rt /\ a.main

\* rt.delete() with its error swallowed: the loop goes on to the next table
DeleteRouteTable_ErrorSwallowed(rt) ==
    /\ pc = "rt.delete"
    /\ rt \in todo
    /\ NotMain(rt)
    /\ \E res \in Answers(aws, "delete_route_table", rt, None) :
         /\ Answered("delete_route_table", rt, None, res)
         /\ aws' = IF res = "ok"
                   THEN Effect(aws, "delete_route_table", rt, None, "")
                   ELSE aws
         /\ todo' = todo \ {rt}
         /\ pc' = IF todo' = {} THEN "vpc.delete" ELSE "rt.delete"
         /\ deleteOrder' = IF res = "ok" THEN Noted(deleteOrder, "RouteTable")
                           ELSE deleteOrder
         /\ UNCHANGED <<cur, rtSnap>>
    /\ CleanupFrame

\* rt.delete() for a table that passes the test
DeleteRouteTable(rt) ==
    /\ pc = "rt.delete"
    /\ rt \in todo
    /\ NotMain(rt)
    /\ \E res \in Answers(aws, "delete_route_table", rt, None) :
         /\ Answered("delete_route_table", rt, None, res)
         /\ IF res = "ok"
            THEN /\ aws' = Effect(aws, "delete_route_table", rt, None, "")
                 /\ todo' = todo \ {rt}
                 /\ pc' = IF todo' = {} THEN "vpc.delete" ELSE "rt.delete"
                 /\ deleteOrder' = Noted(deleteOrder, "RouteTable")
                 /\ UNCHANGED <<cur, rtSnap>>
            ELSE Raise
    /\ CleanupFrame

\* the loop passes over a table that fails the test
SkipRouteTable(rt) ==
    /\ pc = "rt.delete"
    /\ rt \in todo
    /\ ~NotMain(rt)
    /\ todo' = todo \ {rt}
    /\ pc' = IF todo' = {} THEN "vpc.delete" ELSE "rt.delete"
    /\ UNCHANGED <<aws, cur, rtSnap, lastCall, deleteOrder, faults>>
    /\ CleanupFrame

\* vpc.delete()
DeleteVpc ==
    /\ pc = "vpc.delete"
    /\ \E res \in Answers(aws, "delete_vpc", vpc_id, None) :
         /\ Answered("delete_vpc", vpc_id, None, res)
         /\ IF res = "ok"
            THEN /\ aws' = Effect(aws, "delete_vpc", vpc_id, None, "")
                 /\ pc' = "done"
                 /\ deleteOrder' = Noted(deleteOrder, "VPC")
                 /\ UNCHANGED <<todo, cur, rtSnap>>
            ELSE Raise
    /\ CleanupFrame

\* ------------------------------------------------------------ environment
\* somebody else removes a resource of the network while the script waits at
\* its prompt or tears the network down
OutOfBandOps == {"delete_subnet", "detach_internet_gateway",
                 "delete_internet_gateway", "delete_route_table", "delete_vpc"}

OpKind(op) ==
    IF op = "detach_internet_gateway" THEN "InternetGateway" ELSE DeleteKind(op)

OutOfBand ==
    /\ pc \notin {"idle", "done", "failed", "main", "create_subnet"}
    /\ faults + oob < MaxDisturbances
    /\ \E op \in OutOfBandOps, id \in aws.live :
         /\ KindOf(id) = OpKind(op)
         /\ LET arg == IF op = "detach_internet_gateway" THEN VpcOf(id)
                       ELSE None
            IN /\ Refusal(aws, op, id, arg) = "ok"
               /\ aws' = Effect(aws, op, id, arg, "")
    /\ oob' = oob + 1
    /\ UNCHANGED <<pc, ip, run, vpc_id, todo, cur, rtSnap, lastCall,
                   createOrder, deleteOrder, caller, cleanups, faults,
                   subnetCalls>>

\* EC2 finishes the creations it has under way: what was pending is available
Settle ==
    /\ aws.pending # {}
    /\ aws' = [aws EXCEPT !.pending = {}]
    /\ UNCHANGED <<pc, ip, run, vpc_id, todo, cur, rtSnap, lastCall,
                   createOrder, deleteOrder, caller, cleanups, oob, faults,
                   subnetCalls>>

Next ==
    \/ MainStart
    \/ MainCall
    \/ Prompt
    \/ CleanupStart
    \/ CreateSubnetStart
    \/ CreateSubnetCall
    \/ ListSubnets
    \/ \E subnet \in todo : DeleteSubnet(subnet)
    \/ ListInternetGateways
    \/ \E igw \in todo : DetachInternetGateway(igw)
    \/ DeleteInternetGateway
    \/ ListRouteTables
    \/ \E rt \in todo : DeleteRouteTable(rt)
    \/ \E rt \in todo : SkipRouteTable(rt)
    \/ DeleteVpc
    \/ OutOfBand
    \/ Settle

Spec == Init /\ [][Next]_vars

\* the VPC is shared: while the script waits at its prompt or tears the
\* network down, somebody else creates a subnet of his own in the VPC
\* (other_subnet, 10.0.20.0/24) and associates it with one of its route tables
OutOfBandAssociate ==
    /\ pc \notin {"idle", "done", "failed", "main", "create_subnet"}
    /\ faults + oob < MaxDisturbances
    /\ LET subnet == Id(vpc_id[1], "other_subnet")
       IN /\ subnet \notin aws.issued
          /\ Refusal(aws, "create_subnet", subnet, vpc_id) = "ok"
          /\ \E rt \in RouteTables(aws, vpc_id) :
               /\ ~IsMain(aws, rt)
               /\ aws' = [Effect(Effect(aws, "create_subnet", subnet,
                                        vpc_id, ""),
                                 "associate_with_subnet", rt, subnet, "")
                            EXCEPT !.pending = @ \ {subnet}]
    /\ oob' = oob + 1
    /\ UNCHANGED <<pc, ip, run, vpc_id, todo, cur, rtSnap, lastCall,
                   createOrder, deleteOrder, caller, cleanups, faults,
                   subnetCalls>>

NextShared ==
    \/ Next
    \/ OutOfBandAssociate

SpecShared == Init /\ [][NextShared]_vars

\* ================================================================ claims
\* an association links the subnet or route table id
HasAssoc(P, id) == \E a \in P.assoc : a.rt = id \/ a.subnet = id

\* the VPC owns no subnet, no route table but its main one, and no gateway
VpcEmpty(P, v) ==
    /\ Subnets(P, v) = {}
    /\ \A t \in RouteTables(P, v) : IsMain(P, t)
    /\ InternetGateways(P, v) = {}

\* cleanup_vpc, called by main() on the network main() built, has deleted
\* the VPC
TornDown ==
    /\ caller = "main"
    /\ pc = "done"
    /\ lastCall = Call("delete_vpc", vpc_id, None, "ok")

\* C1: tearing down the network main() built deletes the associations, both
\* route tables, the gateway (detached first), the three subnets and at last
\* the VPC, and no delete call is issued before its precondition holds: no
\* association left on a subnet or route table, the gateway detached, the
\* VPC empty.
C1_TeardownHonoursPreconditions ==
    /\ [](TornDown => \A id \in aws.live : VpcOf(id) # vpc_id)
    /\ [][ caller = "main" =>
           /\ \A subnet \in todo :
                DeleteSubnet(subnet) => ~HasAssoc(aws, subnet)
           /\ \A rt \in todo :
                DeleteRouteTable(rt) => ~HasAssoc(aws, rt)
           /\ DeleteInternetGateway =>
                ~ \E x \in aws.attached : x[1] = cur
           /\ DeleteVpc => VpcEmpty(aws, vpc_id) ]_vars

\* C2: during teardown no subnet delete and no route table delete is issued
\* while an association linking that subnet or that route table exists.
C2_AssociationRemovedBeforeEndpoints ==
    [][ \A id \in todo :
          (DeleteSubnet(id) \/ DeleteRouteTable(id)) =>
             ~ \E a \in aws.assoc : id \in {a.rt, a.subnet} ]_vars

\* C3: cleanup_vpc issues a gateway's delete only right after the detach of
\* that gateway returned successfully, so never while it is attached; when
\* the detach fails the delete is not issued and cleanup_vpc ends.
C3_GatewayDetachedBeforeDelete ==
    [][ /\ DeleteInternetGateway =>
             /\ lastCall = Call("detach_internet_gateway", cur, vpc_id, "ok")
             /\ <<cur, vpc_id>> \notin aws.attached
        /\ \A igw \in todo :
             (DetachInternetGateway(igw) /\ lastCall'.res # "ok") =>
                pc' = "failed" ]_vars

\* C3 witness: a gateway was detached and then deleted
C3_Witness ==
    /\ lastCall.op = "delete_internet_gateway"
    /\ lastCall.res = "ok"
    /\ lastCall.id \notin aws.live

\* C4: the VPC delete is issued only when the VPC has no subnet, no route
\* table but the main one and no attached gateway, and cleanup_vpc issues no
\* call after it.
C4_VpcDeletedLast ==
    /\ [][DeleteVpc => VpcEmpty(aws, vpc_id)]_vars
    /\ [](lastCall.op = "delete_vpc" => pc \in {"done", "failed"})

\* C4 witness: the VPC of a network that had subnets, route tables and a
\* gateway was deleted
C4_Witness ==
    /\ lastCall = Call("delete_vpc", vpc_id, None, "ok")
    /\ deleteOrder = << "Subnet", "InternetGateway", "RouteTable", "VPC" >>

\* the resources a call of main() depends on
DependsOn(call) ==
    CASE call.op \in {"create_subnet", "create_route_table"} -> {call.arg}
      [] call.op \in {"attach_internet_gateway", "create_route",
                      "associate_with_subnet"} -> {call.id, call.arg}
      [] OTHER -> {}

\* C5: main() issues a create call only after the create of everything it
\* depends on succeeded: the VPC before the gateway's attach, each subnet
\* and each route table; the gateway before the route to it; the subnet and
\* the route table before their association.
C5_CreateAfterDependencies ==
    caller = "main" => DependsOn(lastCall) \subseteq aws.issued

\* C5 witness: the last association of main() was made
C5_Witness ==
    /\ lastCall.op = "associate_with_subnet"
    /\ lastCall.id = Id(run, "private_rt")
    /\ lastCall.res = "ok"

RECURSIVE Reverse(_)
Reverse(q) == IF q = << >> THEN << >> ELSE Append(Reverse(Tail(q)), Head(q))

\* C6: the kinds are deleted by cleanup_vpc in the exact reverse of the order
\* in which main() created them (a route being part of its route table).
C6_DeleteOrderIsReverseOfCreate ==
    TornDown =>
       deleteOrder = Reverse(SelectSeq(createOrder, LAMBDA k : k # "Route"))

\* the Name tag main() gives the resource it holds in the local variable slot
NameOf(slot) ==
    LET i == CHOOSE j \in 1..Len(main) :
                 main[j].op = "create_tags" /\ main[j].tgt = slot
    IN main[i].name

\* C7: a run of main() that finds a resource with the same Name tag on the
\* provider issues no create call for it, so a second run adds nothing.
C7_RerunCreatesNothing ==
    (caller = "main" /\ CreateKind(lastCall.op) \in
                           {"VPC", "InternetGateway", "Subnet", "RouteTable"})
    => ~ \E id \in aws.live :
           /\ id[1] < run
           /\ <<id, NameOf(lastCall.id[2])>> \in aws.tags

IsDelete(op) == DeleteKind(op) # "none"

\* C8: a delete that the provider answers with not-found counts as done:
\* cleanup_vpc does not end in an error because of it.
C8_DeleteOfAbsentIsSuccess ==
    (IsDelete(lastCall.op) /\ lastCall.res = "NotFound") => pc # "failed"

\* C9: a delete that fails does not abort the teardown; a failed subnet
\* delete leaves the detach and delete of the gateway still to be attempted.
C9_TeardownGoesOnAfterFailure ==
    ~ /\ pc = "failed"
      /\ lastCall.op = "delete_subnet"
      /\ lastCall.res # "ok"
      /\ InternetGateways(aws, vpc_id) # {}

\* C10: a failed create skips only what depends on it; when the create of
\* public subnet 2 fails, private subnet 1 and the private route table are
\* still created before main() ends.
C10_IndependentBranchesProceed ==
    (/\ pc = "failed"
     /\ caller = "main"
     /\ lastCall.op = "create_subnet"
     /\ lastCall.id = Id(run, "public_subnet_2"))
    => {Id(run, "private_subnet_1"), Id(run, "private_rt")} \subseteq aws.issued

\* C11: when a call of main() fails before the prompt, the error is raised
\* and nothing is rolled back: main issues no delete on that path and every
\* resource the run created still exists when main ends.
C11_NoRollbackOnFailure ==
    (caller = "main" /\ ip <= Len(main)) =>
       /\ ~IsDelete(lastCall.op)
       /\ pc = "failed" =>
            {id \in aws.issued : id[1] = run} \subseteq aws.live

\* C11 witness: main ended on a failed tagging call with its VPC in place
C11_Witness ==
    /\ caller = "main"
    /\ pc = "failed"
    /\ lastCall.op = "create_tags"
    /\ lastCall.res # "ok"
    /\ Id(run, "vpc") \in aws.live

\* the resources main() creates by a call of its own
MainSlots == {main[i].tgt : i \in {j \in 1..Len(main) :
                                      CreateKind(main[j].op) \in
                                        {"VPC", "InternetGateway", "Subnet",
                                         "RouteTable"}}}

\* C12: in every state, also after a failed call, every VPC, gateway, subnet
\* and route table that exists because the script created it carries a Name
\* tag equal to its logical name.
C12_CreatedResourcesCarryName ==
    \A id \in aws.live :
       id[2] \in MainSlots => <<id, NameOf(id[2])>> \in aws.tags

\* the block of subnet id lies outside its VPC's block or overlaps a subnet
\* of that VPC
BadCidr(P, id) ==
    \/ ~Within(CidrOf(id[2]), VpcCidr)
    \/ \E s \in Subnets(P, VpcOf(id)) \ {id} :
         Overlap(CidrOf(s[2]), CidrOf(id[2]))

\* C13: create_subnet rejects a block that overlaps a sibling subnet or is
\* not inside the VPC's block before it makes any provider call: with VPC
\* 10.0.0.0/16 and subnets 10.0.1.0/24 and 10.0.2.0/24 no call is made for
\* 10.0.1.0/25.
C13_BadCidrRejectedBeforeAnyCall ==
    caller = "create_subnet" =>
       ~(lastCall.op = "create_subnet" /\ BadCidr(aws, lastCall.id))

\* C14: a route is added and a route table is associated only when both
\* ends are available; a subnet that is still pending after its create call
\* is never associated.
C14_AssociateOnlyAvailable ==
    lastCall.op \in {"create_route", "associate_with_subnet"} =>
       {lastCall.id, lastCall.arg} \cap aws.pending = {}

C17_OnlyMainTableSpared ==
    /\ [][ \A rt \in todo :
             /\ DeleteRouteTable(rt) => ~IsMain(aws, rt)
             /\ SkipRouteTable(rt) => (IsMain(aws, rt) \/ rt \notin aws.live) ]_vars
    /\ [](pc = "vpc.delete" =>
             \A rt \in RouteTables(aws, vpc_id) : IsMain(aws, rt))

\* C17 witness: the delete was issued for a table with a non-main association
\* while the main table of the VPC is untouched
C17_Witness ==
    /\ lastCall.op = "delete_route_table"
    /\ AssocsOf(aws, lastCall.id) # {}
    /\ ~IsMain(aws, lastCall.id)
    /\ Id(vpc_id[1], "main_rt") \in aws.live

\* ======================================================= 02_s3_tutorial.py
\* The bucket name carries the account id and the second the run started
\* (lines 317-319), so the bucket of an earlier run plays no part in a later
\* one: in SpecS3 the variable aws is what S3 holds under the name of the
\* latest run, cur is what create_bucket returned, todo is the page of object
\* versions in the delete request, rtSnap the versions listed so far.

\* object versions in one page of the listing, one delete request per page
PageSize == 2

Bucket(owner, versions) ==
    [owner |-> owner, versions |-> versions, versioning |-> FALSE,
     lifecycle |-> FALSE]

\* what S3 may hold under the name when main starts: nothing, a bucket of
\* another account, or a bucket of this account (a run in the same second)
NameStates ==
    { Bucket("none", {}), Bucket("other", {}), Bucket("me", {}),
      Bucket("me", {"sample.txt"}) }

\* the error S3 answers to a request with, "ok" if it goes through
S3Refusal(P, op, key) ==
    IF op = "create_bucket"
    THEN IF P.owner = "me" THEN "BucketAlreadyOwnedByYou"
         ELSE IF P.owner = "other" THEN "BucketAlreadyExists"
         ELSE "ok"
    ELSE IF P.owner = "none" THEN "NoSuchBucket"
    ELSE IF P.owner = "other" THEN "AccessDenied"
    ELSE IF op \in {"head_object", "download_file", "copy_object"}
            /\ key \notin P.versions
    THEN "NoSuchKey"
    ELSE IF op = "delete_bucket" /\ P.versions # {} THEN "BucketNotEmpty"
    ELSE "ok"

\* the bucket after a request that went through
S3Effect(P, op, key, arg) ==
    IF op = "create_bucket" THEN Bucket("me", {})
    ELSE IF op = "upload_file" THEN [P EXCEPT !.versions = @ \cup {key}]
    ELSE IF op = "copy_object" THEN [P EXCEPT !.versions = @ \cup {arg}]
    ELSE IF op = "put_bucket_versioning" THEN [P EXCEPT !.versioning = TRUE]
    ELSE IF op = "put_bucket_lifecycle_configuration"
    THEN [P EXCEPT !.lifecycle = TRUE]
    ELSE IF op = "delete_bucket" THEN Bucket("none", {})
    ELSE P

\* the answers S3 may give: the refusal, or success, or a failure of the
\* service; a delete request for several keys may also return normally with
\* some keys reported as failed in its Errors list
S3Answers(P, op, key) ==
    IF S3Refusal(P, op, key) = "ok"
    THEN {"ok"} \cup
         (IF faults + oob < MaxDisturbances
          THEN {"ServiceError"} \cup
               (IF op = "delete_objects" THEN {"Errors"} ELSE {})
          ELSE {})
    ELSE {S3Refusal(P, op, key)}

S3NoCall == [op |-> "none", id |-> "", arg |-> "", res |-> "ok"]

S3Answered(op, key, arg, res) ==
    /\ lastCall' = Call(op, key, arg, res)
    /\ faults' = IF res \in {"ServiceError", "Errors"} THEN faults + 1
                 ELSE faults

\* BucketAlreadyExists taken for success
create_bucket_TakenIsFine(code) ==
    IF code \in {"ok", "BucketAlreadyOwnedByYou", "BucketAlreadyExists"}
    THEN "True"
    ELSE "raise"

\* what create_bucket does with the answer to its request
create_bucket(code) ==
    IF code = "ok" THEN "True"
    ELSE IF code = "BucketAlreadyOwnedByYou" THEN "True"
    ELSE IF code = "BucketAlreadyExists" THEN "False"
    ELSE "raise"

\* steps 3 to 10 of main
s3_main ==
    << Ins("upload_file", "sample.txt", "", ""),
       Ins("upload_file", "data.json", "", ""),
       Ins("list_objects_v2", "", "", ""),
       Ins("head_object", "sample.txt", "", ""),
       Ins("download_file", "sample.txt", "", ""),
       Ins("copy_object", "sample.txt", "sample-copy.txt", ""),
       Ins("put_bucket_versioning", "", "", ""),
       Ins("put_bucket_lifecycle_configuration", "", "", ""),
       Ins("list_objects_v2", "", "", "") >>

S3Init ==
    /\ aws = Bucket("none", {})
    /\ pc = "idle"
    /\ ip = 0
    /\ run = 0
    /\ vpc_id = None
    /\ todo = {}
    /\ cur = "none"
    /\ rtSnap = {}
    /\ lastCall = S3NoCall
    /\ createOrder = << >>
    /\ deleteOrder = << >>
    /\ caller = "none"
    /\ cleanups = 0
    /\ subnetCalls = 0
    /\ oob = 0
    /\ faults = 0

S3Frame ==
    UNCHANGED <<vpc_id, createOrder, deleteOrder, oob, subnetCalls>>

\* python 02_s3_tutorial.py: the caller's identity is asked for before the try
S3MainStart ==
    /\ Stopped
    /\ run + cleanups < MaxInvocations
    /\ \E b \in NameStates :
       \E res \in {"ok"} \cup (IF faults + oob < MaxDisturbances
                               THEN {"ServiceError"} ELSE {}) :
         /\ aws' = b
         /\ S3Answered("get_caller_identity", "", "", res)
         /\ pc' = IF res = "ok" THEN "create_bucket" ELSE "failed"
    /\ run' = run + 1
    /\ ip' = 0
    /\ cur' = "none"
    /\ todo' = {}
    /\ rtSnap' = {}
    /\ caller' = "main"
    /\ UNCHANGED cleanups
    /\ S3Frame

\* step 1 of main: create_bucket, and the return when it answers False
CreateBucket ==
    /\ pc = "create_bucket"
    /\ \E res \in S3Answers(aws, "create_bucket", "") :
         /\ S3Answered("create_bucket", "", "", res)
         /\ aws' = IF res = "ok" THEN S3Effect(aws, "create_bucket", "", "")
                   ELSE aws
         /\ cur' = create_bucket(res)
         /\ pc' = IF cur' = "raise" THEN "failed"
                  ELSE IF cur' = "False" THEN "done"
                  ELSE "main"
    /\ ip' = 1
    /\ UNCHANGED <<run, todo, rtSnap, caller, cleanups>>
    /\ S3Frame

\* one request of steps 3 to 10; any error ends main in its except clause
S3MainCall ==
    /\ pc = "main"
    /\ LET i == s3_main[ip]
       IN \E res \in S3Answers(aws, i.op, i.tgt) :
            /\ S3Answered(i.op, i.tgt, i.arg, res)
            /\ aws' = IF res = "ok" THEN S3Effect(aws, i.op, i.tgt, i.arg)
                      ELSE aws
            /\ pc' = IF res # "ok" THEN "failed"
                     ELSE IF ip = Len(s3_main) THEN "prompt"
                     ELSE "main"
            /\ ip' = IF res = "ok" THEN ip + 1 ELSE ip
    /\ UNCHANGED <<run, todo, cur, rtSnap, caller, cleanups>>
    /\ S3Frame

\* "Do you want to delete the bucket and all contents?"
S3Prompt ==
    /\ pc = "prompt"
    /\ \E response \in {"yes", "no"} :
         pc' = IF response = "yes" THEN "object_versions.all" ELSE "done"
    /\ UNCHANGED <<aws, ip, run, todo, cur, rtSnap, lastCall, caller,
                   cleanups, faults>>
    /\ S3Frame

\* delete_bucket('tutorial-bucket-...') called by hand, as main suggests
DeleteBucketStart ==
    /\ Stopped
    /\ run >= 1
    /\ run + cleanups < MaxInvocations
    /\ cleanups' = cleanups + 1
    /\ caller' = "delete_bucket"
    /\ pc' = "object_versions.all"
    /\ cur' = "none"
    /\ todo' = {}
    /\ rtSnap' = {}
    /\ lastCall' = S3NoCall
    /\ UNCHANGED <<aws, ip, run, faults>>
    /\ S3Frame

\* the except clause of delete_bucket: print and re-raise
S3Raise ==
    /\ pc' = "failed"
    /\ UNCHANGED <<aws, todo, rtSnap>>

\* bucket.object_versions.all(): the next page of the listing
ListObjectVersions ==
    /\ pc = "object_versions.all"
    /\ \E res \in S3Answers(aws, "list_object_versions", "") :
         /\ S3Answered("list_object_versions", "", "", res)
         /\ IF res = "ok"
            THEN \E page \in SUBSET (aws.versions \ rtSnap) :
                   /\ \/ Cardinality(page) = PageSize
                      \/ /\ Cardinality(page) < PageSize
                         /\ page = aws.versions \ rtSnap
                   /\ todo' = page
                   /\ rtSnap' = rtSnap \cup page
                   /\ pc' = IF page = {} THEN "bucket.delete"
                            ELSE "delete_objects"
                   /\ UNCHANGED aws
            ELSE S3Raise
    /\ UNCHANGED <<ip, run, cur, caller, cleanups>>
    /\ S3Frame

\* .delete(): one delete request for the page; the request raises on an error
\* of its own, not on the keys it reports as failed
DeleteObjects ==
    /\ pc = "delete_objects"
    /\ \E res \in S3Answers(aws, "delete_objects", "") :
         /\ S3Answered("delete_objects", "", "", res)
         /\ IF res \in {"ok", "Errors"}
            THEN /\ \E kept \in SUBSET todo :
                      /\ (res = "ok") <=> (kept = {})
                      /\ aws' = [aws EXCEPT !.versions = @ \ (todo \ kept)]
                 /\ todo' = {}
                 /\ pc' = IF aws.versions \ rtSnap = {} THEN "bucket.delete"
                          ELSE "object_versions.all"
                 /\ UNCHANGED rtSnap
            ELSE S3Raise
    /\ UNCHANGED <<ip, run, cur, caller, cleanups>>
    /\ S3Frame

\* bucket.delete()
BucketDelete ==
    /\ pc = "bucket.delete"
    /\ \E res \in S3Answers(aws, "delete_bucket", "") :
         /\ S3Answered("delete_bucket", "", "", res)
         /\ IF res = "ok"
            THEN /\ aws' = S3Effect(aws, "delete_bucket", "", "")
                 /\ pc' = "done"
                 /\ UNCHANGED <<todo, rtSnap>>
            ELSE S3Raise
    /\ UNCHANGED <<ip, run, cur, caller, cleanups>>
    /\ S3Frame

S3Next ==
    \/ S3MainStart
    \/ CreateBucket
    \/ S3MainCall
    \/ S3Prompt
    \/ DeleteBucketStart
    \/ ListObjectVersions
    \/ DeleteObjects
    \/ BucketDelete

SpecS3 == S3Init /\ [][S3Next]_vars

\* C18: delete_bucket deletes every object version before it issues the
\* bucket delete, and if the deletion of versions fails the bucket delete is
\* not issued: delete_bucket ends in the error.
C18_VersionsGoneBeforeBucketDelete ==
    [][ /\ BucketDelete => aws.versions = {}
        /\ (DeleteObjects /\ todo \cap aws'.versions # {}) => pc' = "failed"
      ]_vars

\* C19: create_bucket returns True on success and on BucketAlreadyOwnedByYou,
\* False on BucketAlreadyExists, and re-raises every other error; after False
\* main makes no further request.
C19_CreateBucketOutcomes ==
    /\ lastCall.op = "create_bucket" =>
          /\ lastCall.res \in {"ok", "BucketAlreadyOwnedByYou"} =>
                (cur = "True" /\ pc # "failed")
          /\ lastCall.res = "BucketAlreadyExists" => cur = "False"
          /\ lastCall.res \notin {"ok", "BucketAlreadyOwnedByYou",
                                  "BucketAlreadyExists"} =>
                (cur = "raise" /\ pc = "failed")
    /\ cur = "False" => (lastCall.op = "create_bucket" /\ pc = "done")

\* C19 witness: the name is taken by another account and main has returned
C19_Witness ==
    /\ lastCall = Call("create_bucket", "", "", "BucketAlreadyExists")
    /\ cur = "False"
    /\ pc = "done"

\* ====================================================== 03_ec2_tutorial.py
\* The key pair and the security group are named after the second the run
\* started (lines 379-380): in SpecEC2 the variable aws is what EC2 holds
\* under the names of the latest run, and cur holds the values of
\* instance_id, key_name and security_group_id that main or cleanup_resources
\* works with.

\* Python's None, as opposed to the string 'None'
NoValue == "<None>"

\* '{x}' in an f-string
Str(x) == IF x = NoValue THEN "None" ELSE x

Locals(i, k, g) == [instance_id |-> i, key_name |-> k, security_group_id |-> g]

Ec2State(key, sg, inst) == [key |-> key, sg |-> sg, inst |-> inst]

\* what EC2 may hold under the names when main starts: nothing, or the key
\* pair or group of a run in the same second
Ec2StartStates == { Ec2State(k, g, "none") : k \in BOOLEAN, g \in BOOLEAN }

Ec2Refusal(P, op, id) ==
    IF op = "create_key_pair"
    THEN IF P.key THEN "InvalidKeyPair.Duplicate" ELSE "ok"
    ELSE IF op = "create_security_group"
    THEN IF P.sg THEN "InvalidGroup.Duplicate" ELSE "ok"
    ELSE IF op = "terminate_instances"
    THEN IF id = "None" THEN "InvalidInstanceID.Malformed" ELSE "ok"
    ELSE IF op = "delete_security_group"
    THEN IF id = "None" THEN "InvalidGroupId.Malformed"
         ELSE IF ~P.sg THEN "InvalidGroup.NotFound"
         ELSE IF P.inst \in {"pending", "running", "shutting-down"}
         THEN "DependencyViolation"
         ELSE "ok"
    ELSE "ok"

Ec2Effect(P, op) ==
    IF op = "create_key_pair" THEN [P EXCEPT !.key = TRUE]
    ELSE IF op = "create_security_group" THEN [P EXCEPT !.sg = TRUE]
    ELSE IF op = "create_instances" THEN [P EXCEPT !.inst = "pending"]
    ELSE IF op = "wait_until_running" THEN [P EXCEPT !.inst = "running"]
    ELSE IF op = "terminate_instances"
    THEN [P EXCEPT !.inst = IF @ = "terminated" THEN @ ELSE "shutting-down"]
    ELSE IF op = "wait_until_terminated" THEN [P EXCEPT !.inst = "terminated"]
    ELSE IF op = "delete_security_group" THEN [P EXCEPT !.sg = FALSE]
    ELSE IF op = "delete_key_pair" THEN [P EXCEPT !.key = FALSE]
    ELSE P

\* a waiter gives up with WaiterError, any other request with a ClientError
Ec2Answers(P, op, id) ==
    IF Ec2Refusal(P, op, id) = "ok"
    THEN {"ok"} \cup
         (IF faults + oob < MaxDisturbances
          THEN IF op \in {"wait_until_running", "wait_until_terminated"}
               THEN {"WaiterError"}
               ELSE {"ServiceError"}
          ELSE {})
    ELSE {Ec2Refusal(P, op, id)}

Ec2Answered(op, id, res) ==
    /\ lastCall' = Call(op, id, "", res)
    /\ faults' = IF res \in {"ServiceError", "WaiterError"} THEN faults + 1
                 ELSE faults

\* the requests of steps 1 to 7 of main, in order
ec2_main ==
    << Ins("create_key_pair", "tutorial-key", "", ""),
       Ins("create_security_group", "tutorial-sg", "", ""),
       Ins("authorize_security_group_ingress", "sg-1", "", ""),
       Ins("describe_images", "", "", ""),
       Ins("create_instances", "i-1", "", ""),
       Ins("wait_until_running", "i-1", "", ""),
       Ins("reload", "i-1", "", ""),
       Ins("describe_instances", "i-1", "", ""),
       Ins("describe_instances", "", "", "") >>

Ec2Init ==
    /\ aws = Ec2State(FALSE, FALSE, "none")
    /\ pc = "idle"
    /\ ip = 0
    /\ run = 0
    /\ vpc_id = None
    /\ todo = {}
    /\ cur = Locals(NoValue, NoValue, NoValue)
    /\ rtSnap = {}
    /\ lastCall = S3NoCall
    /\ createOrder = << >>
    /\ deleteOrder = << >>
    /\ caller = "none"
    /\ cleanups = 0
    /\ subnetCalls = 0
    /\ oob = 0
    /\ faults = 0

Ec2Frame ==
    UNCHANGED <<vpc_id, todo, rtSnap, createOrder, deleteOrder, oob,
                subnetCalls>>

\* python 03_ec2_tutorial.py, up to the try
Ec2MainStart ==
    /\ Stopped
    /\ run + cleanups < MaxInvocations
    /\ \E P \in Ec2StartStates : aws' = P
    /\ run' = run + 1
    /\ pc' = "main"
    /\ ip' = 1
    /\ cur' = Locals(NoValue, "tutorial-key", NoValue)
    /\ lastCall' = S3NoCall
    /\ caller' = "main"
    /\ UNCHANGED <<cleanups, faults>>
    /\ Ec2Frame

\* one request of main. The two Duplicate answers are handled: the key pair
\* is taken as it is, the group is looked up (Ec2DescribeGroup). Every other
\* error ends main in its except clause.
Ec2MainCall ==
    /\ pc = "main"
    /\ LET i == ec2_main[ip]
       IN \E res \in Ec2Answers(aws, i.op, i.tgt) :
            /\ Ec2Answered(i.op, i.tgt, res)
            /\ aws' = IF res = "ok" THEN Ec2Effect(aws, i.op) ELSE aws
            /\ cur' = IF res = "ok" /\ i.op = "authorize_security_group_ingress"
                      THEN [cur EXCEPT !.security_group_id = "sg-1"]
                      ELSE IF res = "ok" /\ i.op = "reload"
                      THEN [cur EXCEPT !.instance_id = "i-1"]
                      ELSE cur
            /\ pc' = IF res = "InvalidGroup.Duplicate"
                     THEN "describe_security_groups"
                     ELSE IF res \notin {"ok", "InvalidKeyPair.Duplicate"}
                     THEN "failed"
                     ELSE IF ip = Len(ec2_main) THEN "prompt"
                     ELSE "main"
            /\ ip' = IF res \in {"ok", "InvalidKeyPair.Duplicate"} THEN ip + 1
                     ELSE ip
    /\ UNCHANGED <<run, caller, cleanups>>
    /\ Ec2Frame

\* create_security_group, lines 108-113: the id of the group that exists
Ec2DescribeGroup ==
    /\ pc = "describe_security_groups"
    /\ \E res \in Ec2Answers(aws, "describe_security_groups", "tutorial-sg") :
         /\ Ec2Answered("describe_security_groups", "tutorial-sg", res)
         /\ cur' = IF res = "ok" THEN [cur EXCEPT !.security_group_id = "sg-1"]
                   ELSE cur
         /\ pc' = IF res = "ok" THEN "main" ELSE "failed"
         /\ ip' = IF res = "ok" THEN 4 ELSE ip
    /\ UNCHANGED <<aws, run, caller, cleanups>>
    /\ Ec2Frame

\* where cleanup_resources goes after the instance, and after the group
AfterInstance(a) ==
    IF a.security_group_id # NoValue THEN "delete_security_group"
    ELSE IF a.key_name # NoValue THEN "delete_key_pair"
    ELSE "done"

AfterGroup(a) == IF a.key_name # NoValue THEN "delete_key_pair" ELSE "done"

FirstStep(a) ==
    IF a.instance_id # NoValue THEN "instance.terminate" ELSE AfterInstance(a)

\* "Do you want to clean up all resources?"
Ec2Prompt ==
    /\ pc = "prompt"
    /\ \E response \in {"yes", "no"} :
         pc' = IF response = "yes" THEN FirstStep(cur) ELSE "done"
    /\ UNCHANGED <<aws, ip, run, cur, lastCall, caller, cleanups, faults>>
    /\ Ec2Frame

\* cleanup_resources('...', '...', '...') called by hand with the arguments
\* main printed: a value main never got is the string 'None'
CleanupResourcesStart ==
    /\ Stopped
    /\ run >= 1
    /\ run + cleanups < MaxInvocations
    /\ cleanups' = cleanups + 1
    /\ caller' = "cleanup_resources"
    /\ cur' = Locals(Str(cur.instance_id), Str(cur.key_name),
                     Str(cur.security_group_id))
    /\ pc' = FirstStep(cur')
    /\ lastCall' = S3NoCall
    /\ UNCHANGED <<aws, ip, run, faults>>
    /\ Ec2Frame

\* the instance gets on by itself: a start or a shutdown under way completes
InstanceProgress ==
    /\ aws.inst \in {"pending", "shutting-down"}
    /\ aws' = [aws EXCEPT !.inst = IF @ = "pending" THEN "running"
                                   ELSE "terminated"]
    /\ UNCHANGED <<pc, ip, run, cur, lastCall, caller, cleanups, faults>>
    /\ Ec2Frame

\* one request of cleanup_resources, going on to position next; an error is
\* printed and re-raised (a WaiterError passes the except clauses untouched)
\* and nothing after it runs
CleanupCall(op, id, next) ==
    /\ \E res \in Ec2Answers(aws, op, id) :
         /\ Ec2Answered(op, id, res)
         /\ aws' = IF res = "ok" THEN Ec2Effect(aws, op) ELSE aws
         /\ pc' = IF res = "ok" THEN next ELSE "failed"
    /\ UNCHANGED <<ip, run, cur, caller, cleanups>>
    /\ Ec2Frame

\* terminate_instance without the wait
TerminateInstance_NoWait ==
    /\ pc = "instance.terminate"
    /\ CleanupCall("terminate_instances", cur.instance_id, AfterInstance(cur))

\* terminate_instance: instance.terminate()
TerminateInstance ==
    /\ pc = "instance.terminate"
    /\ CleanupCall("terminate_instances", cur.instance_id,
                   "wait_until_terminated")

\* terminate_instance: instance.wait_until_terminated()
WaitUntilTerminated ==
    /\ pc = "wait_until_terminated"
    /\ CleanupCall("wait_until_terminated", cur.instance_id,
                   AfterInstance(cur))

\* ec2_client.delete_security_group(GroupId=security_group_id)
DeleteSecurityGroup ==
    /\ pc = "delete_security_group"
    /\ CleanupCall("delete_security_group", cur.security_group_id,
                   AfterGroup(cur))

\* ec2_client.delete_key_pair(KeyName=key_name)
DeleteKeyPair ==
    /\ pc = "delete_key_pair"
    /\ CleanupCall("delete_key_pair", cur.key_name, "done")

Ec2Next ==
    \/ Ec2MainStart
    \/ Ec2MainCall
    \/ Ec2DescribeGroup
    \/ Ec2Prompt
    \/ CleanupResourcesStart
    \/ InstanceProgress
    \/ TerminateInstance
    \/ WaitUntilTerminated
    \/ DeleteSecurityGroup
    \/ DeleteKeyPair

SpecEC2 == Ec2Init /\ [][Ec2Next]_vars

\* C20: cleanup_resources issues the security-group delete only when the
\* instance is terminated, right after wait_until_terminated returned; it
\* issues the key-pair delete only right after the security-group delete
\* succeeded; a request that fails ends cleanup_resources in the error with
\* nothing deleted by it or after it.
C20_CleanupOrder ==
    /\ [][ DeleteSecurityGroup =>
             /\ aws.inst = "terminated"
             /\ lastCall = Call("wait_until_terminated", cur.instance_id, "",
                                "ok") ]_vars
    /\ [][ DeleteKeyPair =>
             /\ ~aws.sg
             /\ lastCall = Call("delete_security_group",
                                cur.security_group_id, "", "ok") ]_vars
    /\ [][ ((TerminateInstance \/ WaitUntilTerminated \/ DeleteSecurityGroup
             \/ DeleteKeyPair) /\ lastCall'.res # "ok") =>
             (pc' = "failed" /\ aws' = aws) ]_vars

\* C20 witness: the whole cleanup went through, in order
C20_Witness ==
    /\ lastCall = Call("delete_key_pair", "tutorial-key", "", "ok")
    /\ pc = "done"
    /\ aws = Ec2State(FALSE, FALSE, "terminated")

====
